---- MODULE Spec2Model ----
(***************************************************************************)
(* A model of ryba's backup pipeline (src/src/ryba/backup.py): one run of  *)
(* backup_directory mirrors a source directory with rsync, clones the      *)
(* mirror into a timestamp-named snapshot and rotates old snapshots.       *)
(* Every call the code makes on the Target Context, on subprocess and on   *)
(* the rotation policy is one entry of `trace`; every logger.log call is   *)
(* one entry of `log`.                                                     *)
(***************************************************************************)
EXTENDS Integers, Sequences, FiniteSets, TLC

\* ------------------------------------------------------------------ bounds
\* Runs of backup_directory in one behaviour.
MaxRuns == 2
\* Run timestamps have their seconds field in 0..MaxWall.
MaxWall == 1

\* ------------------------------------------------------- values and inputs
\* The sub-second part (microseconds) and the UTC offset (hours) of a run
\* timestamp; both are dropped by strftime in _snapshot_name.
Microseconds == {0, 1}
UtcOffsets == {0, 1}

\* A timezone-aware datetime.datetime: 1970-01-01T00:00:<wall>.<usec>+<off>:00
Timestamps == [wall : 0..MaxWall, usec : Microseconds, off : UtcOffsets]

\* Exit statuses of the rsync subprocess the model draws from.
ExitCodes == {-9, 0, 11, 23, 24, 25}

\* What directory.rotate.should_rotate() may return: True, or anything else.
PyTrue == "True"
ShouldRotateValues ==
    {PyTrue, "False", "None", "1", "only 2 of required 3 snapshots exist"}

\* rotators.Verdict
Verdicts == {"keep", "drop"}

\* directory.rotate: None, or a rotator.
NoRotator == "None"
Rotators == {NoRotator, "policy"}

\* The Directory of the runs.
SourcePath == "/home/user"
TargetPath == "/backup/user"

\* constants.CURRENT_SNAPSHOT_NAME and constants.TIMESTAMP_FILE_NAME
CURRENT_SNAPSHOT_NAME == "current"
TIMESTAMP_FILE_NAME == ".timestamp"

\* ----------------------------------------------------------- pure helpers
\* pathlib's `/`
PathJoin(a, b) == a \o "/" \o b

\* context.make_path followed by str(): a local target addresses a path as it is.
make_path(p) == p

\* shlex.join on words that need no quoting.
RECURSIVE shlex_join(_)
shlex_join(cmd) ==
    IF Len(cmd) = 0 THEN ""
    ELSE IF Len(cmd) = 1 THEN cmd[1]
    ELSE cmd[1] \o " " \o shlex_join(Tail(cmd))

\* A format that stops at the minute: "snapshot-%Y-%m-%dT%H:%M".
SnapshotNameMutant(timestamp) == "snapshot-1970-01-01T00:00"

\* timestamp.strftime("snapshot-%Y-%m-%dT%H:%M:%S"): the wall-clock fields to
\* the second; neither the microseconds nor the UTC offset are formatted.
_snapshot_name(timestamp) ==
    "snapshot-1970-01-01T00:00:0" \o ToString(timestamp.wall)

\* timestamp.isoformat(): microseconds appear when they are not 0, the UTC
\* offset always.
isoformat(timestamp) ==
    "1970-01-01T00:00:0" \o ToString(timestamp.wall)
        \o (IF timestamp.usec = 0 THEN "" ELSE ".00000" \o ToString(timestamp.usec))
        \o "+0" \o ToString(timestamp.off) \o ":00"

\* A slash added to every path.
EnsureTrailingSlashMutant(path) == path \o "/"

\* _ensure_trailing_slash
_ensure_trailing_slash(path) ==
    IF SubSeq(path, Len(path), Len(path)) /= "/" THEN path \o "/" ELSE path


\* An argv that never gets the flag.
DryRunFlagMutant(dry_run) == <<>>

\* `if dry_run: command.append('--dry-run')`
DryRunFlag(dry_run) == IF dry_run THEN <<"--dry-run">> ELSE <<>>

\* The rsync argv _send_files builds for a Directory, the configured
\* verbosity, the dry_run flag and the target's rsync_arguments.
RsyncCommand(directory, verbosity, dry_run, target) ==
    <<"rsync", "--human-readable">>
    \o (IF verbosity = "all" THEN <<"--verbose">>
        ELSE IF verbosity = "silent" THEN <<>>
        ELSE <<"--info=progress2,stats">>)
    \o DryRunFlag(dry_run)
    \o <<"--delete-after", "--delete-excluded">>
    \o <<"--acls", "--archive", "--hard-links", "--fuzzy", "--fuzzy",
         "--numeric-ids", "--xattrs">>
    \o (IF directory.one_file_system THEN <<"--one-file-system">> ELSE <<>>)
    \o (IF directory.exclude_from /= "None"
        THEN <<"--exclude-from=" \o directory.exclude_from>> ELSE <<>>)
    \o [i \in 1..Len(directory.exclude_files) |-> "--exclude=" \o directory.exclude_files[i]]
    \o target.target_arguments
    \o <<_ensure_trailing_slash(directory.source_path),
         _ensure_trailing_slash(target.target_str)>>

\* directory.target.rsync_arguments(current_path) of a local target:
\* the path itself and no connection arguments.
rsync_arguments(current_path) == [target_str |-> current_path, target_arguments |-> <<>>]

\* The Directory the runs back up (its rotator is drawn per run).
Dir == [source_path |-> SourcePath, target_path |-> TargetPath,
        one_file_system |-> FALSE, exclude_from |-> "None",
        exclude_files |-> <<"*.cache">>]

\* config.get(logging.Verbosity) of the runs.
ConfigVerbosity == "default"

\* The commands of the three phases.
MkdirCmd == <<"mkdir", "-p", make_path(Dir.target_path)>>

CpCmd(timestamp) ==
    <<"cp", "--archive", "--link", "--no-target-directory", "--force",
      make_path(PathJoin(Dir.target_path, CURRENT_SNAPSHOT_NAME)),
      make_path(PathJoin(Dir.target_path, _snapshot_name(timestamp)))>>

ChmodCmd(name) == <<"chmod", "-R", "u+wX", make_path(PathJoin(Dir.target_path, name))>>

RmCmd(name) == <<"rm", "-rf", make_path(PathJoin(Dir.target_path, name))>>

SendCommand(dry_run) ==
    LET t == rsync_arguments(make_path(PathJoin(Dir.target_path, CURRENT_SNAPSHOT_NAME)))
    IN RsyncCommand(Dir, ConfigVerbosity, dry_run, t)

\* A classification that forgets status 23.
TransferAcceptedMutant(returncode) == returncode \in {0, 24}

\* Does the rsync exit status count as a finished transfer (no raise)?
TransferAccepted(returncode) == returncode \in {0, 23, 24}

\* A test for truthiness in place of the identity with True.
IsTrueMutant(value) == value \notin {"False", "None"}

\* `reason is not True` in _rotate_snapshot is `~ IsTrue(reason)`.
IsTrue(value) == value = PyTrue

\* A phase that takes every Directory to have a rotator.
HasRotatorMutant(rotate) == TRUE

\* `directory.rotate is None` in _rotate_snapshot is `~ HasRotator(rotate)`.
HasRotator(rotate) == rotate /= NoRotator

\* A loop that deletes whatever the verdict is.
ShouldDeleteMutant(dry_run, verdict) == ~ dry_run

\* `not dry_run and verdict is rotators.Verdict.drop`: is the backup deleted?
ShouldDelete(dry_run, verdict) == ~ dry_run /\ verdict = "drop"

\* A caller that swallows the failure of a command.
AfterExecuteMutant(ok, next) == next

\* context.execute and context.write_file raise when the command fails and
\* no phase catches the exception: control goes on only after a success.
AfterExecute(ok, next) == IF ok THEN next ELSE "raise"

\* targets.Backup
Backup(name, timestamp) == [name |-> name, timestamp |-> timestamp]

\* The order of Backups under sorted(): by name, then by instant. Names are
\* fixed-width, so their lexical order is the order of the seconds field;
\* the names of the model have a one-digit seconds field.
Seconds == 0..9
NameRank(name) == CHOOSE w \in Seconds : _snapshot_name([wall |-> w]) = name
UtcSecond(timestamp) == timestamp.wall - 3600 * timestamp.off
Earlier(t, u) ==
    \/ UtcSecond(t) < UtcSecond(u)
    \/ UtcSecond(t) = UtcSecond(u) /\ t.usec < u.usec
BackupLess(a, b) ==
    \/ NameRank(a.name) < NameRank(b.name)
    \/ /\ a.name = b.name
       /\ Earlier(a.timestamp, b.timestamp)

\* sorted(results): insertion of each result after the entries not greater.
RECURSIVE InsertSorted(_, _)
InsertSorted(r, sorted) ==
    IF Len(sorted) = 0 THEN <<r>>
    ELSE IF BackupLess(r.backup, Head(sorted).backup)
         THEN <<r>> \o sorted
         ELSE <<Head(sorted)>> \o InsertSorted(r, Tail(sorted))

RECURSIVE SortResults(_)
SortResults(results) ==
    IF Len(results) = 0 THEN <<>>
    ELSE InsertSorted(results[Len(results)],
                      SortResults(SubSeq(results, 1, Len(results) - 1)))

\* ------------------------------------------------------------------ state
VARIABLES
    pc,          \* where the current run of backup_directory stands
    run,         \* the arguments of the current run
    nruns,       \* runs started so far
    ctx,         \* the Target Context of the current run: "none", "open", "closed"
    rootExists,  \* does directory.target_path exist on the target?
    mirror,      \* does the "current" mirror exist under target_path?
    snaps,       \* the snapshot directories under target_path
    before,      \* `snaps` as the current run found it
    trace,       \* calls of the current run on context, subprocess and rotator
    log,         \* logger.log calls of the current run
    raised,      \* the exception the current run raised
    listed,      \* what context.list_backups returned in the current run
    backups,     \* the list the current run passed to rotate_backups
    verdicts,    \* sorted(results) of the current run
    queue        \* the part of sorted(results) the loop has still to process

vars == <<pc, run, nruns, ctx, rootExists, mirror, snaps, before, trace, log,
          raised, listed, backups, verdicts, queue>>

fsvars == <<rootExists, mirror, snaps>>

NoError == [kind |-> "None", code |-> 0]
RsyncError(returncode) == [kind |-> "RsyncError", code |-> returncode]
CommandError == [kind |-> "CommandError", code |-> 1]

Event(op, argv, result) == [op |-> op, argv |-> argv, result |-> result]
Line(level, msg) == [level |-> level, msg |-> msg]

\* A snapshot directory: its name, the content of its marker file ("" when
\* the file is missing) and whether the current run has cloned the mirror
\* onto it.
Snapshot(name, marker, cloned) == [name |-> name, marker |-> marker, cloned |-> cloned]

NoRun == [dry_run |-> FALSE, send_files |-> FALSE, create_snapshot |-> FALSE,
          rotate_snapshot |-> FALSE, timestamp |-> [wall |-> 0, usec |-> 0, off |-> 0],
          rotate |-> NoRotator]

Runs == [dry_run : BOOLEAN, send_files : BOOLEAN, create_snapshot : BOOLEAN,
         rotate_snapshot : BOOLEAN, timestamp : Timestamps, rotate : Rotators]

\* Before the first run nothing exists on the target.
Init ==
    /\ pc = "idle"
    /\ run = NoRun
    /\ nruns = 0
    /\ ctx = "none"
    /\ rootExists = FALSE
    /\ mirror = FALSE
    /\ snaps = {}
    /\ before = snaps
    /\ trace = <<>>
    /\ log = <<>>
    /\ raised = NoError
    /\ listed = <<>>
    /\ backups = <<>>
    /\ verdicts = <<>>
    /\ queue = <<>>

\* ------------------------------------------ backup_directory_with_context
\* The phase gates of backup_directory_with_context: where control goes
\* after the announcement, after _send_files and after _create_snapshot.
\* A gate that forgets the rotate_snapshot flag.
AfterSnapshotMutant(r) == "rotate"

AfterSnapshot(r) == IF r.rotate_snapshot THEN "rotate" ELSE "return"
AfterSend(r) == IF r.create_snapshot THEN "snapshot" ELSE AfterSnapshot(r)
\* A gate that forgets the send_files flag.
AfterStartMutant(r) == "send"

AfterStart(r) == IF r.send_files THEN "send" ELSE AfterSend(r)

\* backup_directory: connect to the target, then announce the run.
BackupDirectory ==
    /\ pc = "idle"
    /\ nruns < MaxRuns
    /\ \E r \in Runs :
        /\ run' = r
        /\ pc' = AfterStart(r)
    /\ nruns' = nruns + 1
    /\ ctx' = "open"
    /\ before' = snaps
    /\ trace' = <<>>
    /\ log' = <<Line("MESSAGE", "Backing up " \o Dir.source_path)>>
    /\ raised' = NoError
    /\ listed' = <<>>
    /\ backups' = <<>>
    /\ verdicts' = <<>>
    /\ queue' = <<>>
    /\ UNCHANGED fsvars

\* A block that skips the release when its body raised.
ContextOnExitMutant(exit) == IF exit = "raise" THEN "open" ELSE "closed"

\* `with directory.target.connect() as context:` releases the context when
\* the block is left, whether by return or by exception.
ContextOnExit(exit) == "closed"

\* Leaving the `with` block of backup_directory, by return or by exception:
\* the context is released and the locals of the run are gone.
Release ==
    /\ pc \in {"return", "raise"}
    /\ ctx' = ContextOnExit(pc)
    /\ pc' = "idle"
    /\ run' = NoRun
    /\ snaps' = {Snapshot(x.name, x.marker, FALSE) : x \in snaps}
    /\ before' = snaps'
    /\ trace' = <<>>
    /\ log' = <<>>
    /\ raised' = NoError
    /\ listed' = <<>>
    /\ backups' = <<>>
    /\ verdicts' = <<>>
    /\ queue' = <<>>
    /\ UNCHANGED <<nruns, rootExists, mirror>>

\* ------------------------------------------------------------ _send_files
\* A _send_files that goes straight to rsync.
AfterExistsMutant(exists, dry_run) == "rsync"

\* `if not context.exists(...)`: ... `if not dry_run: context.execute(cmd)`:
\* the mkdir is executed for a missing root outside a dry run.
AfterExists(exists, dry_run) == IF ~ exists /\ ~ dry_run THEN "mkdir" ELSE "rsync"

\* context.exists(directory.target_path) and, when the destination root is
\* missing, the two log lines that announce its creation.
SendFilesExists ==
    /\ pc = "send"
    /\ trace' = Append(trace,
            Event("exists", <<Dir.target_path>>, IF rootExists THEN "True" ELSE "False"))
    /\ log' = IF rootExists THEN log
              ELSE log \o
                <<Line("INFO", "Creating destination directory PosixPath('" \o Dir.target_path \o "')"),
                  Line("DEBUG", "remote $ " \o shlex_join(MkdirCmd))>>
    /\ pc' = AfterExists(rootExists, run.dry_run)
    /\ UNCHANGED <<run, nruns, ctx, rootExists, mirror, snaps, before, raised,
                   listed, backups, verdicts, queue>>

\* context.execute(["mkdir", "-p", target_path]), which raises when it fails.
SendFilesMkdir ==
    /\ pc = "mkdir"
    /\ \E ok \in BOOLEAN :
        /\ trace' = Append(trace, Event("execute", MkdirCmd, IF ok THEN "ok" ELSE "error"))
        /\ rootExists' = ok
        /\ raised' = IF ok THEN raised ELSE CommandError
        /\ pc' = AfterExecute(ok, "rsync")
    /\ UNCHANGED <<run, nruns, ctx, mirror, snaps, before, log, listed, backups, verdicts, queue>>

\* subprocess.run(command) and the classification of its exit status.
SendFilesRsync ==
    /\ pc = "rsync"
    /\ \E returncode \in ExitCodes :
        LET command == SendCommand(run.dry_run)
            started == log \o <<Line("INFO", "Running rsync"),
                                Line("DEBUG", "$ " \o shlex_join(command))>>
        IN
        /\ trace' = Append(trace, Event("subprocess.run", command, ToString(returncode)))
        /\ IF TransferAccepted(returncode)
           THEN /\ log' = started \o <<Line("INFO", "Finished backup")>> \o
                        (IF returncode /= 0
                         THEN <<Line("WARNING",
                                "Ignoring `partial transfer' warnings (rsync exited with "
                                    \o ToString(returncode) \o ").")>>
                         ELSE <<>>)
                /\ raised' = raised
                /\ pc' = AfterSend(run)
                /\ mirror' = IF run.dry_run THEN mirror ELSE TRUE
           ELSE /\ log' = started \o
                        <<Line("ERROR", "Backup failed! (rsync exited with "
                                    \o ToString(returncode) \o ")")>>
                /\ raised' = RsyncError(returncode)
                /\ pc' = "raise"
                \* a failed transfer may or may not have changed the mirror
                /\ mirror' \in IF run.dry_run THEN {mirror} ELSE {mirror, TRUE}
    /\ UNCHANGED <<run, nruns, ctx, rootExists, snaps, before, listed, backups, verdicts, queue>>

\* ------------------------------------------------------- _create_snapshot
\* The snapshot directories after cp --archive --link --no-target-directory
\* --force has cloned the mirror onto `name`: a directory of that name is
\* overwritten in place and keeps the marker file it had.
Cloned(S, name) ==
    LET old == {x \in S : x.name = name}
        marker == IF old = {} THEN "" ELSE (CHOOSE x \in old : TRUE).marker
    IN (S \ old) \cup {Snapshot(name, marker, TRUE)}

\* A write_file that reports success and writes nothing.
StampedMutant(S, name, text) == S

\* The snapshot directories after write_file has written the marker of `name`.
Stamped(S, name, text) ==
    {IF x.name = name THEN Snapshot(x.name, text, x.cloned) ELSE x : x \in S}

\* Log the snapshot and its cp command; unless dry_run, execute the command.
\* The clone fails when there is no mirror to clone, and may fail otherwise.
CreateSnapshotClone ==
    /\ pc = "snapshot"
    /\ log' = log \o
            <<Line("INFO", "Creating snapshot " \o _snapshot_name(run.timestamp)),
              Line("DEBUG", "remote $ " \o shlex_join(CpCmd(run.timestamp)))>>
    /\ IF run.dry_run
       THEN /\ pc' = AfterSnapshot(run)
            /\ UNCHANGED <<trace, snaps, raised>>
       ELSE \E ok \in (IF mirror THEN BOOLEAN ELSE {FALSE}) :
            /\ trace' = Append(trace,
                    Event("execute", CpCmd(run.timestamp), IF ok THEN "ok" ELSE "error"))
            /\ snaps' = IF ok THEN Cloned(snaps, _snapshot_name(run.timestamp))
                        ELSE snaps
            /\ raised' = IF ok THEN raised ELSE CommandError
            /\ pc' = AfterExecute(ok, "write_file")
    /\ UNCHANGED <<run, nruns, ctx, rootExists, mirror, before, listed, backups, verdicts, queue>>

\* The marker file of the snapshot, as _create_snapshot addresses it.
MarkerPath(timestamp) ==
    PathJoin(PathJoin(Dir.target_path, _snapshot_name(timestamp)), TIMESTAMP_FILE_NAME)

\* context.write_file(snapshot / TIMESTAMP_FILE_NAME, timestamp.isoformat())
CreateSnapshotWriteFile ==
    /\ pc = "write_file"
    /\ \E ok \in BOOLEAN :
        /\ trace' = Append(trace,
                Event("write_file", <<MarkerPath(run.timestamp), isoformat(run.timestamp)>>,
                      IF ok THEN "ok" ELSE "error"))
        /\ snaps' = IF ok
                    THEN Stamped(snaps, _snapshot_name(run.timestamp), isoformat(run.timestamp))
                    ELSE snaps
        /\ raised' = IF ok THEN raised ELSE CommandError
        /\ pc' = AfterExecute(ok, AfterSnapshot(run))
    /\ UNCHANGED <<run, nruns, ctx, rootExists, mirror, before, log, listed, backups, verdicts, queue>>

\* ------------------------------------------------------- _rotate_snapshot
\* datetime.fromisoformat on the content of a marker file.
fromisoformat(text) == CHOOSE t \in Timestamps : isoformat(t) = text

\* The entries of a set of snapshot directories in the order of their names.
RECURSIVE InNameOrder(_)
InNameOrder(S) ==
    IF S = {} THEN <<>>
    ELSE LET first == CHOOSE x \in S : \A y \in S : NameRank(x.name) <= NameRank(y.name)
         IN <<first>> \o InNameOrder(S \ {first})

\* context.list_backups(directory.target_path): one Backup per snapshot
\* directory that holds a marker file, its timestamp read from that file.
list_backups(S) ==
    LET dirs == InNameOrder({x \in S : x.marker /= ""})
    IN [i \in 1..Len(dirs) |-> Backup(dirs[i].name, fromisoformat(dirs[i].marker))]

\* The list _rotate_snapshot passes to rotate_backups: in a dry run the
\* snapshot this run would have created is appended to the enumeration.
BackupsToRotate(enumerated, dry_run, timestamp) ==
    IF dry_run
    THEN Append(enumerated, Backup(_snapshot_name(timestamp), timestamp))
    ELSE enumerated

\* What directory.rotate.rotate_backups may return for a list of Backups:
\* one (backup, verdict, explanation) per Backup of the list, in any order.
Explanation(verdict) == IF verdict = "drop" THEN "Out of date" ELSE "Recent backup"
Result(backup, verdict) ==
    [backup |-> backup, verdict |-> verdict, explanation |-> Explanation(verdict)]
RotateResults(list) ==
    {[i \in 1..Len(list) |-> Result(list[p[i]], v[p[i]])] :
        v \in [1..Len(list) -> Verdicts], p \in Permutations(1..Len(list))}

\* Where the loop over sorted(results) stands with `rest` still to process.
LoopOrReturn(rest) == IF Len(rest) = 0 THEN "return" ELSE "loop"

\* directory.rotate is None: log and return.
RotateNoRotator ==
    /\ pc = "rotate"
    /\ ~ HasRotator(run.rotate)
    /\ log' = Append(log, Line("INFO", "Not rotating backups: no rotator configured"))
    /\ pc' = "return"
    /\ UNCHANGED <<run, nruns, ctx, rootExists, mirror, snaps, before, trace,
                   raised, listed, backups, verdicts, queue>>

\* should_rotate() returned something that is not True: log it and return.
RotateDeclined ==
    /\ pc = "rotate"
    /\ HasRotator(run.rotate)
    /\ \E reason \in ShouldRotateValues :
        /\ ~ IsTrue(reason)
        /\ trace' = Append(trace, Event("should_rotate", <<>>, reason))
        /\ log' = Append(log, Line("INFO", "Not rotating backups: " \o reason))
    /\ pc' = "return"
    /\ UNCHANGED <<run, nruns, ctx, rootExists, mirror, snaps, before, raised,
                   listed, backups, verdicts, queue>>

\* should_rotate() returned True: enumerate the backups, append the
\* fictitious one in a dry run, have the rotator classify them and sort.
RotateClassify ==
    /\ pc = "rotate"
    /\ HasRotator(run.rotate)
    /\ \E reason \in ShouldRotateValues :
        /\ IsTrue(reason)
        /\ LET enumerated == list_backups(snaps)
               passed == BackupsToRotate(enumerated, run.dry_run, run.timestamp)
           IN
           /\ listed' = enumerated
           /\ backups' = passed
           /\ trace' = trace \o
                <<Event("should_rotate", <<>>, reason),
                  Event("list_backups", <<Dir.target_path>>, ToString(Len(enumerated))),
                  Event("rotate_backups", <<isoformat(run.timestamp)>>, ToString(Len(passed)))>>
           /\ \E sorted \in {SortResults(results) : results \in RotateResults(passed)} :
                /\ verdicts' = sorted
                /\ queue' = sorted
                /\ pc' = LoopOrReturn(sorted)
    /\ log' = Append(log,
            Line("INFO", "Rotating backups using '" \o run.rotate \o "' strategy"))
    /\ UNCHANGED <<run, nruns, ctx, rootExists, mirror, snaps, before, raised>>

\* Is there a directory of this name under target_path?
SnapshotExists(name) == \E x \in snaps : x.name = name

\* One iteration of the loop up to the chmod: log the decision and, for a
\* drop outside a dry run, relax the permissions of the snapshot.
RotateNext ==
    /\ pc = "loop"
    /\ LET r == Head(queue) IN
        /\ log' = Append(log, Line("INFO",
                "  - " \o r.backup.name \o ": " \o r.verdict \o ". " \o r.explanation))
        /\ IF ShouldDelete(run.dry_run, r.verdict)
           THEN \E ok \in (IF SnapshotExists(r.backup.name) THEN BOOLEAN ELSE {FALSE}) :
                /\ trace' = Append(trace,
                        Event("execute", ChmodCmd(r.backup.name), IF ok THEN "ok" ELSE "error"))
                /\ raised' = IF ok THEN raised ELSE CommandError
                /\ pc' = AfterExecute(ok, "rm")
                /\ queue' = queue
           ELSE /\ queue' = Tail(queue)
                /\ pc' = LoopOrReturn(Tail(queue))
                /\ UNCHANGED <<trace, raised>>
    /\ UNCHANGED <<run, nruns, ctx, rootExists, mirror, snaps, before, listed, backups, verdicts>>

\* A removal that also takes every directory whose name sorts before `name`.
RemovedMutant(S, name) == {x \in S : NameRank(x.name) > NameRank(name)}

\* The snapshot directories after rm -rf of target_path/<name> has succeeded.
Removed(S, name) == {x \in S : x.name /= name}

\* The rm -rf of the iteration; on success the snapshot directory is gone.
RotateRemove ==
    /\ pc = "rm"
    /\ LET r == Head(queue) IN
        \E ok \in BOOLEAN :
            /\ trace' = Append(trace,
                    Event("execute", RmCmd(r.backup.name), IF ok THEN "ok" ELSE "error"))
            /\ snaps' = IF ok THEN Removed(snaps, r.backup.name) ELSE snaps
            /\ raised' = IF ok THEN raised ELSE CommandError
            /\ queue' = IF ok THEN Tail(queue) ELSE queue
            /\ pc' = AfterExecute(ok, LoopOrReturn(Tail(queue)))
    /\ UNCHANGED <<run, nruns, ctx, rootExists, mirror, before, log, listed, backups, verdicts>>

\* ---------------------------------------------------------- specification
Next ==
    \/ BackupDirectory
    \/ SendFilesExists
    \/ SendFilesMkdir
    \/ SendFilesRsync
    \/ CreateSnapshotClone
    \/ CreateSnapshotWriteFile
    \/ RotateNoRotator
    \/ RotateDeclined
    \/ RotateClassify
    \/ RotateNext
    \/ RotateRemove
    \/ Release

Spec == Init /\ [][Next]_vars

\* ------------------------------------------------- reading trace and log
Range(seq) == {seq[i] : i \in 1..Len(seq)}

IsMirror(e) == e.op = "subprocess.run"
IsExecOf(e, program) == e.op = "execute" /\ e.argv[1] = program
IsMkdir(e) == IsExecOf(e, "mkdir")
IsClone(e) == IsExecOf(e, "cp")
IsMarkerWrite(e) == e.op = "write_file"
IsChmod(e) == IsExecOf(e, "chmod")
IsRm(e) == IsExecOf(e, "rm")
IsDeletion(e) == IsChmod(e) \/ IsRm(e)
IsPolicyCall(e) == e.op \in {"should_rotate", "rotate_backups"}
IsListing(e) == e.op = "list_backups"

\* The phase a call belongs to: 1 send, 2 snapshot, 3 rotate.
PhaseOf(e) ==
    IF e.op = "exists" \/ IsMkdir(e) \/ IsMirror(e) THEN 1
    ELSE IF IsClone(e) \/ IsMarkerWrite(e) THEN 2
    ELSE 3

Logged(level, msg) == Line(level, msg) \in Range(log)

\* The log lines with which each phase starts its work.
SendLogged == Logged("INFO", "Running rsync")
SnapshotLogged == Logged("INFO", "Creating snapshot " \o _snapshot_name(run.timestamp))
RotateLogged ==
    \/ Logged("INFO", "Not rotating backups: no rotator configured")
    \/ \E reason \in ShouldRotateValues : Logged("INFO", "Not rotating backups: " \o reason)
    \/ Logged("INFO", "Rotating backups using '" \o run.rotate \o "' strategy")

InRun == pc /= "idle"
Names(S) == {x.name : x \in S}

\* --------------------------------------------------------------------- C1
\* C1: the calls of a run are ordered send, then snapshot, then rotate; a
\* snapshot-phase command comes only after the mirroring command has
\* returned, a rotation-phase call only after the snapshot phase has
\* finished; a phase whose flag is false makes no call and logs nothing; and
\* a run that returns has run every enabled phase.
C1_PhasesInOrder ==
    /\ \A i, j \in 1..Len(trace) : i < j => PhaseOf(trace[i]) <= PhaseOf(trace[j])
    /\ \A j \in 1..Len(trace) :
        /\ PhaseOf(trace[j]) >= 2 /\ run.send_files
            => \E i \in 1..(j - 1) : IsMirror(trace[i])
        /\ PhaseOf(trace[j]) = 3 /\ run.create_snapshot
            => /\ SnapshotLogged
               /\ ~ run.dry_run =>
                    \E i \in 1..(j - 1) : IsMarkerWrite(trace[i]) /\ trace[i].result = "ok"
    /\ ~ run.send_files
        => ~ SendLogged /\ \A e \in Range(trace) : PhaseOf(e) /= 1
    /\ ~ run.create_snapshot
        => ~ SnapshotLogged /\ \A e \in Range(trace) : PhaseOf(e) /= 2
    /\ ~ run.rotate_snapshot
        => ~ RotateLogged /\ \A e \in Range(trace) : PhaseOf(e) /= 3
    /\ pc = "return" =>
        /\ run.send_files => SendLogged /\ \E e \in Range(trace) : IsMirror(e)
        /\ run.create_snapshot => SnapshotLogged
        /\ run.create_snapshot /\ ~ run.dry_run => \E e \in Range(trace) : IsClone(e)
        /\ run.rotate_snapshot => RotateLogged

\* A complete real run with all three phases, down to a removal.
C1_Witness ==
    /\ pc = "return"
    /\ run.send_files /\ run.create_snapshot /\ run.rotate_snapshot /\ ~ run.dry_run
    /\ \E e \in Range(trace) : IsMirror(e)
    /\ \E e \in Range(trace) : IsClone(e)
    /\ \E e \in Range(trace) : IsRm(e) /\ e.result = "ok"

\* --------------------------------------------------------------------- C2
\* C2: an rsync exit status of 0, 23 or 24 raises nothing, 23 and 24 log the
\* warning and the run goes on to the phase that follows; every other status
\* raises RsyncError carrying exactly that status.
C2_ExitStatus ==
    \A e \in Range(trace) : IsMirror(e) =>
        IF e.result \in {"0", "23", "24"}
        THEN /\ raised.kind /= "RsyncError"
             /\ Logged("INFO", "Finished backup")
             /\ e.result /= "0" <=>
                    Logged("WARNING",
                        "Ignoring `partial transfer' warnings (rsync exited with "
                            \o e.result \o ").")
             /\ run.create_snapshot => pc = "snapshot" \/ SnapshotLogged
             /\ ~ run.create_snapshot /\ run.rotate_snapshot => pc = "rotate" \/ RotateLogged
        ELSE /\ raised.kind = "RsyncError"
             /\ ToString(raised.code) = e.result
             /\ pc = "raise"

\* rsync exited with 24 and the run stands at the snapshot phase.
C2_Witness ==
    /\ pc = "snapshot"
    /\ raised = NoError
    /\ \E e \in Range(trace) : IsMirror(e) /\ e.result = "24"

\* --------------------------------------------------------------------- C3
\* C3: a failure ends the run at once. A call that failed (a fatal rsync
\* status, a failed execute or write_file) is the last call of the run, the
\* run stands at the raise with the exception set, and an exception is set
\* only then; after a fatal rsync status no clone, marker write, listing,
\* chmod or rm was issued, after a failed clone no marker write and no
\* rotation call. Nothing done before the failure is undone: a created root
\* and a transferred mirror still exist, a cloned snapshot is still there
\* unless the run removed it itself, a removed snapshot stays removed.
Failed(e) ==
    \/ e.result = "error"
    \/ IsMirror(e) /\ e.result \notin {"0", "23", "24"}

C3_FailureAborts ==
    /\ \A i \in 1..Len(trace) : Failed(trace[i]) =>
        /\ i = Len(trace)
        /\ pc = "raise"
        /\ raised /= NoError
        /\ IsMirror(trace[i]) =>
            /\ raised.kind = "RsyncError"
            /\ \A e \in Range(trace) : PhaseOf(e) = 1
            /\ ~ SnapshotLogged /\ ~ RotateLogged
        /\ IsClone(trace[i]) =>
            /\ \A e \in Range(trace) : ~ IsMarkerWrite(e) /\ PhaseOf(e) /= 3
            /\ ~ RotateLogged
    /\ pc = "raise" <=> raised /= NoError
    /\ pc = "raise" => \E e \in Range(trace) : Failed(e)
    /\ \A i \in 1..Len(trace) : trace[i].result = "ok" =>
        /\ IsMkdir(trace[i]) => rootExists
        /\ IsClone(trace[i]) =>
            \/ \E x \in snaps : x.name = _snapshot_name(run.timestamp) /\ x.cloned
            \/ \E j \in (i + 1)..Len(trace) :
                    trace[j] = Event("execute", RmCmd(_snapshot_name(run.timestamp)), "ok")
        /\ IsRm(trace[i]) => \A x \in snaps : RmCmd(x.name) /= trace[i].argv
    /\ \A e \in Range(trace) :
        IsMirror(e) /\ ~ run.dry_run /\ e.result \in {"0", "23", "24"} => mirror

\* The clone failed after a transfer that had created root and mirror.
C3_Witness ==
    /\ pc = "raise"
    /\ raised = CommandError
    /\ \E e \in Range(trace) : IsMkdir(e) /\ e.result = "ok"
    /\ \E e \in Range(trace) : IsMirror(e) /\ e.result = "23"
    /\ IsClone(trace[Len(trace)])
    /\ run.rotate_snapshot

\* --------------------------------------------------------------------- C4
\* C4: a dry run issues no mutating command: no mkdir, cp, marker write,
\* chmod or rm, and no rsync without --dry-run; once the send phase of a dry
\* run with send_files is over, rsync has been run exactly once.
MirrorCalls == {i \in 1..Len(trace) : IsMirror(trace[i])}

C4_DryRunMutatesNothing ==
    run.dry_run =>
        /\ \A e \in Range(trace) :
            /\ ~ IsMkdir(e) /\ ~ IsClone(e) /\ ~ IsMarkerWrite(e) /\ ~ IsDeletion(e)
            /\ e.op /= "execute"
            /\ IsMirror(e) => "--dry-run" \in Range(e.argv)
        /\ Cardinality(MirrorCalls) <= 1
        /\ run.send_files /\ pc \notin {"send", "rsync"} => Cardinality(MirrorCalls) = 1
        /\ ~ run.send_files => MirrorCalls = {}
        /\ snaps = before

\* A complete dry run of all three phases whose rotation had a drop verdict
\* to act on, on a target whose root does not exist.
C4_Witness ==
    /\ pc = "return"
    /\ run.dry_run /\ run.send_files /\ run.create_snapshot /\ run.rotate_snapshot
    /\ ~ rootExists
    /\ \E r \in Range(verdicts) : r.verdict = "drop"

\* --------------------------------------------------------------------- C5
\* C5: with rotate_snapshot false a run issues no chmod and no rm, and every
\* snapshot directory that existed before the run still exists.
C5_NoRotateNoDeletion ==
    InRun /\ ~ run.rotate_snapshot =>
        /\ \A e \in Range(trace) : ~ IsDeletion(e)
        /\ Names(before) \subseteq Names(snaps)

\* A real run without rotation that cloned onto a target holding an older
\* snapshot, with a rotator configured.
C5_Witness ==
    /\ pc = "return"
    /\ ~ run.rotate_snapshot /\ ~ run.dry_run /\ run.rotate /= NoRotator
    /\ before /= {}
    /\ \E x \in snaps : x.cloned /\ x.name \notin Names(before)

\* --------------------------------------------------------------------- C6
\* C6: in the rotation of a real run every chmod and rm is the chmod -R u+wX
\* or the rm -rf of target_path/<name> of a Backup with verdict drop, every
\* rm comes right after the successful chmod of the same path, and no chmod
\* or rm names the path of a Backup with verdict keep, also when a command
\* failed; when the rotation has gone through, every drop has had exactly
\* one chmod and one rm, both successful, and its directory is gone.
Classified == \E e \in Range(trace) : e.op = "rotate_backups"
DropNames == {r.backup.name : r \in {x \in Range(verdicts) : x.verdict = "drop"}}
KeepNames == {r.backup.name : r \in {x \in Range(verdicts) : x.verdict = "keep"}}
CallsOf(argv) == {i \in 1..Len(trace) : trace[i].op = "execute" /\ trace[i].argv = argv}

C6_OnlyDropsDeleted ==
    InRun /\ ~ run.dry_run =>
        /\ \A i \in 1..Len(trace) : IsDeletion(trace[i]) =>
            /\ \E n \in DropNames : trace[i].argv \in {ChmodCmd(n), RmCmd(n)}
            /\ \A k \in KeepNames : PathJoin(Dir.target_path, k) \notin Range(trace[i].argv)
            /\ IsRm(trace[i]) =>
                /\ i > 1
                /\ IsChmod(trace[i - 1])
                /\ trace[i - 1].result = "ok"
                /\ trace[i - 1].argv[4] = trace[i].argv[3]
        /\ pc = "return" /\ Classified =>
            \A n \in DropNames :
                /\ Cardinality(CallsOf(ChmodCmd(n))) = 1
                /\ Cardinality(CallsOf(RmCmd(n))) = 1
                /\ \A i \in CallsOf(ChmodCmd(n)) \cup CallsOf(RmCmd(n)) : trace[i].result = "ok"
                /\ n \notin Names(snaps)
        /\ \A k \in KeepNames : k \in Names(snaps)

\* A real rotation that went through with one keep and one drop.
C6_Witness ==
    /\ pc = "return"
    /\ ~ run.dry_run
    /\ KeepNames /= {}
    /\ \E n \in DropNames : CallsOf(RmCmd(n)) /= {}

\* --------------------------------------------------------------------- C7
\* C7: a run whose Directory has no rotator never calls should_rotate,
\* list_backups or rotate_backups and never issues a chmod or rm; its
\* rotation phase logs that no rotator is configured and returns without an
\* exception, leaving every snapshot in place, in a dry run and in a real one.
C7_NoRotatorNoRotation ==
    InRun /\ run.rotate = NoRotator =>
        /\ \A e \in Range(trace) : PhaseOf(e) /= 3
        /\ verdicts = <<>> /\ listed = <<>> /\ backups = <<>>
        /\ Names(before) \subseteq Names(snaps)
        /\ Logged("INFO", "Not rotating backups: no rotator configured")
            => pc = "return" /\ raised = NoError
        /\ run.rotate_snapshot /\ pc = "return"
            => log[Len(log)] = Line("INFO", "Not rotating backups: no rotator configured")

\* The rotation phase of a run without rotator has returned while snapshots
\* exist under the target path.
C7_Witness ==
    /\ pc = "return"
    /\ run.rotate = NoRotator /\ run.rotate_snapshot
    /\ snaps /= {}
    /\ Logged("INFO", "Not rotating backups: no rotator configured")

\* --------------------------------------------------------------------- C8
\* C8: listing, classification, chmod and rm happen only after should_rotate
\* has returned True; after any other value that call is the last call of the
\* run, the last log line gives the value as the reason, and the run returns
\* without an exception.
C8_RotateOnlyOnTrue ==
    /\ \A i \in 1..Len(trace) : trace[i].op = "should_rotate" =>
        IF trace[i].result = "True"
        THEN /\ Len(trace) >= i + 2
             /\ IsListing(trace[i + 1])
             /\ trace[i + 2].op = "rotate_backups"
        ELSE /\ i = Len(trace)
             /\ log[Len(log)] = Line("INFO", "Not rotating backups: " \o trace[i].result)
             /\ pc = "return"
             /\ raised = NoError
             /\ verdicts = <<>> /\ listed = <<>> /\ backups = <<>>
             /\ Names(before) \subseteq Names(snaps)
    /\ \A j \in 1..Len(trace) :
        IsListing(trace[j]) \/ trace[j].op = "rotate_backups" \/ IsDeletion(trace[j])
            => \E i \in 1..(j - 1) : trace[i] = Event("should_rotate", <<>>, "True")

\* should_rotate gave a reason in a real run on a target that holds snapshots.
C8_Witness ==
    /\ pc = "return"
    /\ ~ run.dry_run
    /\ snaps /= {}
    /\ trace[Len(trace)] =
        Event("should_rotate", <<>>, "only 2 of required 3 snapshots exist")

\* --------------------------------------------------------------------- C9
\* Two aware datetimes are distinct when they are different instants.
Distinct(t, u) == Earlier(t, u) \/ Earlier(u, t)

\* The snapshot directory `b` of an earlier run is as that run left it, and
\* is not where the current run clones to.
Untouched(b) ==
    /\ CpCmd(run.timestamp)[7] /= make_path(PathJoin(Dir.target_path, b.name))
    /\ \A x \in snaps : x.name = b.name => x = b

\* C9 as claimed: a real run with the snapshot phase at timestamp t2 leaves
\* alone every snapshot whose marker holds a distinct timestamp t1, whatever
\* part of the timestamps differs.
C9_DistinctTimestampsNeverOverwrite ==
    InRun /\ ~ run.dry_run /\ run.create_snapshot =>
        \A b \in before :
            b.marker /= "" /\ Distinct(fromisoformat(b.marker), run.timestamp)
                => Untouched(b)

\* C9 as amended: a real run with the snapshot phase at timestamp t2 leaves
\* alone every snapshot whose marker holds a timestamp t1 that differs from
\* t2 in the wall-clock date and time to the second, the part strftime puts
\* into the name.
C9_DistinctSecondsNeverOverwrite ==
    InRun /\ ~ run.dry_run /\ run.create_snapshot =>
        \A b \in before :
            b.marker /= "" /\ fromisoformat(b.marker).wall /= run.timestamp.wall
                => Untouched(b)

\* The second run has cloned and stamped its snapshot next to the snapshot
\* of another second, which is still as it was.
C9_Witness ==
    /\ pc = "return"
    /\ ~ run.dry_run /\ run.create_snapshot
    /\ \E b \in before :
        /\ b.marker /= ""
        /\ fromisoformat(b.marker).wall /= run.timestamp.wall
        /\ b \in snaps
    /\ \E x \in snaps :
        /\ x.cloned
        /\ x.name = _snapshot_name(run.timestamp)
        /\ x.marker = isoformat(run.timestamp)

\* -------------------------------------------------------------------- C10
\* C10 as claimed: the list passed to rotate_backups in a dry run is the
\* enumeration followed by the Backup named as _create_snapshot names the
\* snapshot of the run timestamp and carrying that timestamp, that Backup
\* occurs exactly once in the list, and in a real run the list is the
\* enumeration.
Occurrences(list, x) == {i \in 1..Len(list) : list[i] = x}

C10_SyntheticBackupOnce ==
    Classified =>
        IF run.dry_run
        THEN /\ backups = Append(listed,
                    Backup(_snapshot_name(run.timestamp), run.timestamp))
             /\ PathJoin(Dir.target_path, backups[Len(backups)].name)
                    = CpCmd(run.timestamp)[7]
             /\ Cardinality(Occurrences(backups, backups[Len(backups)])) = 1
        ELSE backups = listed

\* -------------------------------------------------------------------- C11
\* The snapshot directories the rotation phase of a real run with the
\* arguments `r` finds on a target that held `S`, every command of the run
\* having succeeded: the snapshot phase has cloned and stamped its snapshot.
AfterRealRun(S, r) ==
    IF r.create_snapshot
    THEN Stamped(Cloned(S, _snapshot_name(r.timestamp)),
                 _snapshot_name(r.timestamp), isoformat(r.timestamp))
    ELSE S

\* Two lists hold the same Backups, each as many times.
SameBackups(a, b) ==
    \A x \in Range(a) \cup Range(b) :
        Cardinality(Occurrences(a, x)) = Cardinality(Occurrences(b, x))

\* C11 as claimed: the list a dry run passes to rotate_backups holds the
\* Backups (names and timestamps) that a real run with the same arguments on
\* the same target passes to it when every command succeeds, whatever the
\* send_files and create_snapshot flags are.
C11_DryRunSameList ==
    Classified /\ run.dry_run =>
        SameBackups(backups,
            BackupsToRotate(list_backups(AfterRealRun(before, run)), FALSE, run.timestamp))

\* -------------------------------------------------------------------- C12
\* The context is open exactly while a run is under way, no context has been
\* acquired before the first run, and every call of a phase is made while
\* the context is open.
ContextHeld ==
    /\ InRun <=> ctx = "open"
    /\ ctx = "none" <=> nruns = 0
    /\ Len(trace) > 0 => ctx = "open"

\* The context changes hands only when a run starts (one acquisition per
\* run) and when a run ends; from a return or a raise the only step is the
\* release; a call is recorded only on an open context that stays open.
ContextStep ==
    /\ ctx' /= ctx =>
        \/ /\ pc = "idle" /\ pc' /= "idle"
           /\ ctx' = "open"
           /\ nruns' = nruns + 1
        \/ /\ pc \in {"return", "raise"} /\ pc' = "idle"
           /\ ctx' = "closed"
    /\ nruns' /= nruns => ctx /= "open" /\ ctx' = "open"
    /\ pc \in {"return", "raise"} => pc' = "idle" /\ ctx' = "closed"
    /\ Len(trace') > Len(trace) => ctx = "open" /\ ctx' = "open"

\* C12: backup_directory acquires the Target Context once per run and
\* releases it on every way out of the run, by return (completion, policy
\* skip) or by exception (fatal rsync status, failed mkdir, clone, marker
\* write, chmod or rm); no call of a phase is made on a released context.
C12_ContextScoped == [] ContextHeld /\ [][ContextStep]_vars

\* The context of a run that ended with a fatal rsync status right after it
\* had created the destination root has been released.
C12_Witness ==
    /\ pc = "idle"
    /\ ctx = "closed"
    /\ rootExists /\ ~ mirror
    /\ snaps = {}

\* -------------------------------------------------------------------- C13
\* Does `part` occur in `text`?
Contains(text, part) ==
    \E i \in 1..(Len(text) - Len(part) + 1) : SubSeq(text, i, i + Len(part) - 1) = part

Digits == {"0", "1", "2", "3", "4", "5", "6", "7", "8", "9"}

\* Does the message state the number `n`: its digits, not as part of a
\* longer number?
StatesNumber(msg, n) ==
    LET word == ToString(n) IN
    \E i \in 1..(Len(msg) - Len(word) + 1) :
        /\ SubSeq(msg, i, i + Len(word) - 1) = word
        /\ i > 1 => SubSeq(msg, i - 1, i - 1) \notin Digits
        /\ i + Len(word) <= Len(msg) =>
                SubSeq(msg, i + Len(word), i + Len(word)) \notin Digits

\* C13 as claimed: when a run has failed on rsync or on a command executed
\* through the context (mkdir, cp, chmod, rm), the last line logged before
\* the exception names the program of that command and states its exit
\* status.
C13_LastLineNamesFailure ==
    pc = "raise" /\ trace[Len(trace)].op \in {"subprocess.run", "execute"} =>
        /\ Contains(log[Len(log)].msg, trace[Len(trace)].argv[1])
        /\ StatesNumber(log[Len(log)].msg, raised.code)

\* -------------------------------------------------------------------- C14
\* The loop of _rotate_snapshot run over the policy's results in every
\* order, not only in the order of sorted(): the executions of SpecOrder
\* start where the loop starts, on a target with up to MaxListed snapshots.
MaxListed == 3

OrderStamp(w) == [wall |-> w, usec |-> 0, off |-> 0]

\* A real run of the rotation phase alone.
OrderRun == [dry_run |-> FALSE, send_files |-> FALSE, create_snapshot |-> FALSE,
             rotate_snapshot |-> TRUE, timestamp |-> OrderStamp(0), rotate |-> "policy"]

\* The stamped snapshots of the seconds in W, and their enumeration.
SnapshotsOf(W) ==
    {Snapshot(_snapshot_name(OrderStamp(w)), isoformat(OrderStamp(w)), FALSE) : w \in W}
ListOf(W) ==
    LET dirs == InNameOrder(SnapshotsOf(W))
    IN [i \in 1..Len(dirs) |-> Backup(dirs[i].name, OrderStamp(NameRank(dirs[i].name)))]

\* The run has listed the snapshots and the policy has returned its results;
\* the loop takes them as returned.
InitOrder ==
    /\ run = OrderRun
    /\ nruns = 1
    /\ ctx = "open"
    /\ rootExists = TRUE
    /\ mirror = TRUE
    /\ raised = NoError
    /\ \E W \in SUBSET (0..(MaxListed - 1)) :
        /\ snaps = SnapshotsOf(W)
        /\ before = SnapshotsOf(W)
        /\ listed = ListOf(W)
        /\ backups = BackupsToRotate(ListOf(W), OrderRun.dry_run, OrderRun.timestamp)
        /\ trace = <<Event("should_rotate", <<>>, PyTrue),
                     Event("list_backups", <<Dir.target_path>>, ToString(Len(ListOf(W)))),
                     Event("rotate_backups", <<isoformat(OrderRun.timestamp)>>,
                           ToString(Len(ListOf(W))))>>
        /\ \E results \in RotateResults(ListOf(W)) :
            /\ verdicts = results
            /\ queue = results
            /\ pc = LoopOrReturn(results)
    /\ log = <<Line("MESSAGE", "Backing up " \o Dir.source_path),
               Line("INFO", "Rotating backups using '" \o OrderRun.rotate \o "' strategy")>>

NextOrder ==
    \/ RotateNext
    \/ RotateRemove

SpecOrder == InitOrder /\ [][NextOrder]_vars

\* The snapshot directories after the loop has gone through `results` in
\* the order given, every command succeeding.
RECURSIVE DeleteAll(_, _)
DeleteAll(S, results) ==
    IF Len(results) = 0 THEN S
    ELSE DeleteAll(IF ShouldDelete(FALSE, Head(results).verdict)
                   THEN Removed(S, Head(results).backup.name) ELSE S,
                   Tail(results))

\* C14: when the loop has gone through the results in the order the policy
\* returned them, whatever that order is, the snapshots left on the target
\* are those the loop leaves when it goes through sorted(results): the
\* listed Backups without those marked drop.
C14_OrderIrrelevant ==
    pc = "return" =>
        /\ snaps = DeleteAll(before, SortResults(verdicts))
        /\ Names(snaps) = {b.name : b \in Range(listed)} \ DropNames
        /\ \A x \in snaps : x \in before

\* The loop has removed two snapshots and kept one, in an order that is not
\* the sorted one.
C14_Witness ==
    /\ pc = "return"
    /\ verdicts /= SortResults(verdicts)
    /\ Cardinality(DropNames) = 2
    /\ KeepNames /= {}
    /\ Names(snaps) = KeepNames

\* -------------------------------------------------------------------- C15
\* Has the marker write of the current run succeeded?
MarkerWritten == \E e \in Range(trace) : IsMarkerWrite(e) /\ e.result = "ok"

\* Within a run the marker is written right after the successful clone of
\* the run, into the snapshot of the run, with the timestamp of the run.
MarkerAfterClone ==
    \A i \in 1..Len(trace) : IsMarkerWrite(trace[i]) =>
        /\ i > 1
        /\ trace[i - 1] = Event("execute", CpCmd(run.timestamp), "ok")
        /\ trace[i].argv = <<MarkerPath(run.timestamp), isoformat(run.timestamp)>>

\* C15 as claimed: once a run is over, by return or by exception, and
\* between runs, every snapshot directory holds a marker file, the marker of
\* a snapshot the run has cloned is the ISO format of the run timestamp, and
\* a marker is written only after the clone has succeeded.
C15_EverySnapshotStamped ==
    /\ pc \in {"idle", "return", "raise"} =>
        \A x \in snaps :
            /\ x.marker /= ""
            /\ x.cloned => x.marker = isoformat(run.timestamp)
    /\ MarkerAfterClone

\* C15 as amended: a marker is written only after the clone has succeeded;
\* a snapshot whose marker write succeeded holds the ISO format of the
\* timestamp of the last run that cloned onto it, a timestamp that gives the
\* directory its name; a snapshot the run cloned without getting to write
\* the marker, or whose marker write failed, is as the clone left it,
\* without marker file or with the marker the directory had before; and a
\* directory without marker file comes from such a run only.
C15_StampedOnceWritten ==
    /\ MarkerAfterClone
    /\ \A x \in snaps :
        /\ x.marker /= "" => _snapshot_name(fromisoformat(x.marker)) = x.name
        /\ x.cloned =>
            /\ x.name = _snapshot_name(run.timestamp)
            /\ IF MarkerWritten
               THEN x.marker = isoformat(run.timestamp)
               ELSE \/ x.marker = "" /\ x.name \notin Names({b \in before : b.marker /= ""})
                    \/ \E b \in before : b.name = x.name /\ b.marker = x.marker
        /\ x.marker = "" => \/ x.cloned /\ ~ MarkerWritten
                            \/ \E b \in before : b.name = x.name /\ b.marker = ""
    /\ pc = "return" /\ run.create_snapshot /\ ~ run.dry_run => MarkerWritten

\* A run has cloned and stamped its snapshot on a target where an earlier
\* run, aborted by a failed marker write, has left a snapshot without marker.
C15_Witness ==
    /\ pc = "return"
    /\ \E b \in before : b.marker = "" /\ b \in snaps
    /\ \E x \in snaps : x.cloned /\ x.marker = isoformat(run.timestamp)

\* -------------------------------------------------------------------- C16
\* What context.exists(target_path) told the current run.
RootFound == \E e \in Range(trace) : e.op = "exists" /\ e.result = "True"
RootMissing == \E e \in Range(trace) : e.op = "exists" /\ e.result = "False"

\* The two lines _send_files logs when the destination root is missing.
MkdirLogged ==
    /\ Logged("INFO", "Creating destination directory PosixPath('" \o Dir.target_path \o "')")
    /\ Logged("DEBUG", "remote $ mkdir -p " \o Dir.target_path)

\* C16: a real run that found the destination root missing has executed
\* mkdir -p on it, successfully, right before rsync is started; after a
\* failed mkdir rsync is not started and the run raises; a run that found
\* the root makes and logs no mkdir; a dry run that found it missing logs
\* the mkdir without executing it and still runs rsync, with --dry-run.
C16_MkdirBeforeRsync ==
    /\ \A j \in 1..Len(trace) : IsMirror(trace[j]) /\ RootMissing /\ ~ run.dry_run =>
        /\ j = 3
        /\ trace[2] = Event("execute", <<"mkdir", "-p", Dir.target_path>>, "ok")
        /\ rootExists
    /\ \A i \in 1..Len(trace) : IsMkdir(trace[i]) =>
        /\ i = 2
        /\ trace[1] = Event("exists", <<Dir.target_path>>, "False")
        /\ trace[i].argv = <<"mkdir", "-p", Dir.target_path>>
        /\ ~ run.dry_run
        /\ MkdirLogged
        /\ trace[i].result = "error" =>
            /\ \A e \in Range(trace) : ~ IsMirror(e)
            /\ ~ SendLogged
            /\ pc = "raise"
    /\ RootMissing /\ ~ run.dry_run /\ pc /= "mkdir" => \E e \in Range(trace) : IsMkdir(e)
    /\ RootFound => ~ MkdirLogged /\ \A e \in Range(trace) : ~ IsMkdir(e)
    /\ RootMissing /\ run.dry_run =>
        /\ MkdirLogged
        /\ \A e \in Range(trace) : ~ IsMkdir(e)
        /\ ~ rootExists
        /\ pc /= "rsync" =>
            /\ IsMirror(trace[2])
            /\ "--dry-run" \in Range(trace[2].argv)

\* A real run has created the missing root and rsync has run after it.
C16_Witness ==
    /\ ~ run.dry_run
    /\ Len(trace) >= 3
    /\ trace[1] = Event("exists", <<Dir.target_path>>, "False")
    /\ IsMkdir(trace[2]) /\ trace[2].result = "ok"
    /\ IsMirror(trace[3])

\* -------------------------------------------------------------------- C17
\* Runs are not coordinated with whatever else works on the target: between
\* the listing and the deletion, the snapshot the loop is about to delete is
\* removed from outside the run.
Vanish ==
    /\ pc = "loop"
    /\ ~ run.dry_run
    /\ Head(queue).verdict = "drop"
    /\ SnapshotExists(Head(queue).backup.name)
    /\ snaps' = Removed(snaps, Head(queue).backup.name)
    /\ UNCHANGED <<pc, run, nruns, ctx, rootExists, mirror, before, trace, log,
                   raised, listed, backups, verdicts, queue>>

NextVanish ==
    \/ Next
    \/ Vanish

SpecVanish == Init /\ [][NextVanish]_vars

\* C17 as claimed: in a real rotation, the chmod issued for a drop whose
\* directory is no longer on the target succeeds, so that the run does not
\* raise and goes on to the rm and to the verdicts that remain.
C17_MissingDropIsSuccess ==
    Len(trace) > 0 /\ IsChmod(trace[Len(trace)])
    /\ (\A x \in snaps : ChmodCmd(x.name) /= trace[Len(trace)].argv)
        => /\ trace[Len(trace)].result = "ok"
           /\ raised = NoError
           /\ pc = "rm"

\* -------------------------------------------------------------------- C18
\* A result list in another order.
Reordered(results, p) == [i \in 1..Len(results) |-> results[p[i]]]

\* The line the loop logs for a result, and the lines it has logged so far:
\* those after the line that announces the rotation.
DecisionLine(r) ==
    Line("INFO", "  - " \o r.backup.name \o ": " \o r.verdict \o ". " \o r.explanation)
Decisions ==
    LET k == CHOOSE i \in 1..Len(log) :
                log[i] = Line("INFO", "Rotating backups using '" \o run.rotate \o "' strategy")
    IN SubSeq(log, k + 1, Len(log))

\* The chmod and rm commands the loop issues for a list of results.
RECURSIVE Commands(_)
Commands(results) ==
    IF Len(results) = 0 THEN <<>>
    ELSE (IF ShouldDelete(run.dry_run, Head(results).verdict)
          THEN <<ChmodCmd(Head(results).backup.name), RmCmd(Head(results).backup.name)>>
          ELSE <<>>) \o Commands(Tail(results))

Deletions == SelectSeq(trace, IsDeletion)

\* The results the loop goes through are in ascending order.
C18_Ascending ==
    \A i, j \in 1..Len(verdicts) :
        i < j => ~ BackupLess(verdicts[j].backup, verdicts[i].backup)

\* Every order in which the policy can return these results is sorted into
\* the one sequence the loop goes through.
C18_AnyOrderSameSequence ==
    \A p \in Permutations(1..Len(verdicts)) :
        SortResults(Reordered(verdicts, p)) = verdicts

\* The decision lines and the chmod and rm commands of the run are those of
\* the sorted results, in that order, as far as the loop has come.
C18_LoggedInOrder ==
    Classified =>
        /\ Len(Decisions) <= Len(verdicts)
        /\ Decisions = [i \in 1..Len(Decisions) |-> DecisionLine(verdicts[i])]
        /\ Len(Deletions) <= Len(Commands(verdicts))
        /\ [i \in 1..Len(Deletions) |-> Deletions[i].argv]
                = SubSeq(Commands(verdicts), 1, Len(Deletions))

\* When a chmod or rm has failed at the k-th result, every drop before it
\* has been removed, and no result after it has been logged or touched.
C18_FailureStopsInOrder ==
    pc = "raise" /\ Len(trace) > 0 /\ IsDeletion(trace[Len(trace)]) =>
        LET k == Len(verdicts) - Len(queue) + 1 IN
        /\ trace[Len(trace)].argv \in
                {ChmodCmd(verdicts[k].backup.name), RmCmd(verdicts[k].backup.name)}
        /\ Len(Decisions) = k
        /\ \A i \in 1..(k - 1) : verdicts[i].verdict = "drop" =>
            /\ verdicts[i].backup.name \notin Names(snaps)
            /\ CallsOf(RmCmd(verdicts[i].backup.name)) /= {}
        /\ \A i \in (k + 1)..Len(verdicts) :
            /\ verdicts[i].backup.name \in Names(snaps)
            /\ CallsOf(ChmodCmd(verdicts[i].backup.name)) = {}
            /\ CallsOf(RmCmd(verdicts[i].backup.name)) = {}

\* C18 as claimed: _rotate_snapshot logs and processes the results in
\* ascending order whatever order the policy returned them in, so that
\* results that are permutations of each other give the same log lines and
\* the same chmod and rm commands; and when a chmod or rm fails at a Backup,
\* every drop sorted before it has been removed and nothing sorted after it
\* has been logged or touched.
C18_SortedWhateverOrder ==
    /\ C18_Ascending
    /\ C18_AnyOrderSameSequence
    /\ C18_LoggedInOrder
    /\ C18_FailureStopsInOrder

\* -------------------------------------------------------------------- C19
\* The argv of _send_files over the configurations of a Directory: the
\* executions of SpecArgv build the command for one configuration each.
\* A Directory has up to MaxExcludes exclude patterns.
MaxExcludes == 2

Patterns == {"*.cache", "tmp/"}
ExcludeLists == UNION {[1..n -> Patterns] : n \in 0..MaxExcludes}

Directories ==
    [source_path : {SourcePath, SourcePath \o "/", "/"},
     target_path : {TargetPath},
     one_file_system : BOOLEAN,
     exclude_from : {"None", "/etc/ryba/exclude"},
     exclude_files : ExcludeLists]

Verbosities == {"all", "silent", "default"}

\* directory.target.rsync_arguments(current_path): a local target gives the
\* path and no arguments, a remote one a host-qualified path and the
\* arguments of its connection; either may hand the path on with a slash.
TargetArguments(current_path) ==
    {[target_str |-> prefix \o current_path \o slash, target_arguments |-> arguments] :
        prefix \in {""}, slash \in {"", "/"}, arguments \in {<<>>}}
    \cup
    {[target_str |-> prefix \o current_path \o slash, target_arguments |-> arguments] :
        prefix \in {"backup@host:"}, slash \in {"", "/"},
        arguments \in {<<"--rsh=ssh -p 2222">>, <<"--rsh=ssh", "--compress">>}}

\* The inputs of one call of _send_files.
ArgvRuns ==
    [dry_run : BOOLEAN, directory : Directories, verbosity : Verbosities,
     target : UNION {TargetArguments(make_path(PathJoin(d.target_path, CURRENT_SNAPSHOT_NAME))) :
                        d \in Directories}]

InitArgv ==
    /\ pc = "send"
    /\ run \in ArgvRuns
    /\ nruns = 1
    /\ ctx = "open"
    /\ rootExists = FALSE
    /\ mirror = FALSE
    /\ snaps = {}
    /\ before = {}
    /\ trace = <<>>
    /\ log = <<>>
    /\ raised = NoError
    /\ listed = <<>>
    /\ backups = <<>>
    /\ verdicts = <<>>
    /\ queue = <<>>

\* Lines 74 to 123 of _send_files: the command is built.
BuildCommand ==
    /\ pc = "send"
    /\ trace' = <<Event("command",
                    RsyncCommand(run.directory, run.verbosity, run.dry_run, run.target), "")>>
    /\ pc' = "built"
    /\ UNCHANGED <<run, nruns, ctx, rootExists, mirror, snaps, before, log, raised,
                   listed, backups, verdicts, queue>>

NextArgv == BuildCommand

SpecArgv == InitArgv /\ [][NextArgv]_vars

\* Is the argument one of the exclude flags?
IsExcludeFlag(a) == Len(a) >= 9 /\ SubSeq(a, 1, 9) = "--exclude"
EndsInSlash(path) == SubSeq(path, Len(path), Len(path)) = "/"
\* The path as it is when it ends in a slash, with one slash added otherwise.
WithSlash(arg, path) ==
    /\ EndsInSlash(arg)
    /\ arg = path \/ (arg = path \o "/" /\ ~ EndsInSlash(path))

\* C19: the argv has the flag --exclude-from=<path> exactly when an exclude
\* file is configured, then one --exclude=<pattern> per configured pattern in
\* the configured order and no other exclude flag, then the arguments of the
\* target, and as its last two arguments the source path and the path of the
\* mirror, each as it is when it ends in '/' and with one '/' added when it
\* does not; _ensure_trailing_slash leaves both as they are.
C19_ArgvShape ==
    pc = "built" =>
        LET argv == trace[1].argv
            d == run.directory
            n == Len(argv)
            k == Len(run.target.target_arguments)
            m == Len(d.exclude_files)
            f == IF d.exclude_from = "None" THEN 0 ELSE 1
            base == n - 2 - k - m
        IN
        /\ base - f >= 2
        /\ {i \in 1..n : IsExcludeFlag(argv[i])} = (base + 1 - f)..(base + m)
        /\ f = 1 => argv[base] = "--exclude-from=" \o d.exclude_from
        /\ \A i \in 1..m : argv[base + i] = "--exclude=" \o d.exclude_files[i]
        /\ SubSeq(argv, base + m + 1, n - 2) = run.target.target_arguments
        /\ WithSlash(argv[n - 1], d.source_path)
        /\ WithSlash(argv[n], run.target.target_str)
        /\ _ensure_trailing_slash(argv[n - 1]) = argv[n - 1]
        /\ _ensure_trailing_slash(argv[n]) = argv[n]
        /\ _ensure_trailing_slash(_ensure_trailing_slash(d.source_path))
                = _ensure_trailing_slash(d.source_path)

\* The command of a Directory with an exclude file, two different patterns,
\* a remote target and a source path given with its slash.
C19_Witness ==
    /\ pc = "built"
    /\ run.directory.exclude_from /= "None"
    /\ run.directory.exclude_files = <<"tmp/", "*.cache">>
    /\ Len(run.target.target_arguments) = 2
    /\ EndsInSlash(run.directory.source_path)
    /\ ~ EndsInSlash(run.target.target_str)

====
